---- MODULE Spec2Model ----
(***************************************************************************)
(* Model of the Sentinel-2 NDVI pipeline of s2-2a-10m-ndvi.py (and of its  *)
(* near-duplicate s2-2a-10-ndvi.py): find_band, read_band, compute_ndvi,   *)
(* write_cog and main.  One run of main is one behaviour of Spec.  The two  *)
(* files differ only in main's arguments: the first appends a file name to *)
(* the output directory it is given, the second writes to the path as it   *)
(* is; the first is the one followed here.                                 *)
(*                                                                         *)
(* Numeric samples are IEEE-754 binary32 values, kept as records           *)
(*   [k |-> "fin", s |-> sign, m |-> mantissa, e |-> exponent]             *)
(* standing for (-1)^s * m * 2^e with m = 0 or 2^23 <= m < 2^24, plus      *)
(* k = "inf" (signed) and k = "nan".                                       *)
(***************************************************************************)
EXTENDS Integers, Sequences, FiniteSets, TLC

\* Largest number of pixels (rows * cols) of a raster whose pixels vary.
MaxPixels == 2

\* Largest number of rows, and of columns, of a raster of one sample value.
MaxSide == 3

\* Digital numbers a raster file of the model may hold in a pixel.
Samples == {-1, 0, 1, 2}

\* Python's None in a variable that otherwise holds a record.
None == [none |-> TRUE]

\* A call that raises nothing.
NoException == "no exception"

---------------------------------------------------------------------------
(* binary32 arithmetic: .astype(np.float32) and the operators of           *)
(* compute_ndvi on float32 arrays.                                         *)

MantBits == 24

Pow2(n) == 2 ^ n

Abs(x) == IF x < 0 THEN -x ELSE x

F32NaN == [k |-> "nan", s |-> 0, m |-> 0, e |-> 0]
F32Inf(sign) == [k |-> "inf", s |-> sign, m |-> 0, e |-> 0]
F32Zero(sign) == [k |-> "fin", s |-> sign, m |-> 0, e |-> 0]

\* Scale num/den (num, den > 0) until 2^23 <= num/den < 2^24, counting the
\* binary exponent in e.
RECURSIVE Normalize(_, _, _)
Normalize(num, den, e) ==
    IF num < Pow2(MantBits - 1) * den THEN Normalize(2 * num, den, e - 1)
    ELSE IF num >= Pow2(MantBits) * den THEN Normalize(num, 2 * den, e + 1)
    ELSE [num |-> num, den |-> den, e |-> e]

\* Round-half-to-even of the normalized quotient (the IEEE default mode).
RoundNearestEven(n) ==
    LET q == n.num \div n.den
        r == n.num % n.den
        up == (2 * r > n.den) \/ (2 * r = n.den /\ q % 2 = 1)
        m == IF up THEN q + 1 ELSE q
    IN  IF m = Pow2(MantBits) THEN [m |-> Pow2(MantBits - 1), e |-> n.e + 1]
        ELSE [m |-> m, e |-> n.e]

\* The binary32 value nearest to (-1)^sign * num / den, for num >= 0, den > 0.
F32Round(sign, num, den) ==
    IF num = 0 THEN F32Zero(sign)
    ELSE LET r == RoundNearestEven(Normalize(num, den, 0))
         IN  [k |-> "fin", s |-> sign, m |-> r.m, e |-> r.e]

\* ndarray.astype(np.float32) on one integer sample.
astype_float32(x) == F32Round(IF x < 0 THEN 1 ELSE 0, Abs(x), 1)

\* The integer a finite integer-valued binary32 stands for.
IntOf(f) ==
    LET mag == IF f.e >= 0 THEN f.m * Pow2(f.e) ELSE f.m \div Pow2(-f.e)
    IN  IF f.s = 1 THEN -mag ELSE mag

\* float32 + and - on integer-valued operands: the exact result, rounded.
\* x - x and x + (-x) give +0.0 in round-to-nearest.
f32_add(a, b) == astype_float32(IntOf(a) + IntOf(b))
f32_sub(a, b) == astype_float32(IntOf(a) - IntOf(b))

\* float32 / with the divide and invalid faults ignored: 0/0 is NaN, x/0 is
\* a signed infinity, anything else the correctly rounded quotient.
f32_div(a, b) ==
    LET sign == (a.s + b.s) % 2
    IN  IF a.m = 0 /\ b.m = 0 THEN F32NaN
        ELSE IF b.m = 0 THEN F32Inf(sign)
        ELSE F32Round(sign, Abs(IntOf(a)), Abs(IntOf(b)))

---------------------------------------------------------------------------
(* Rasters and arrays.                                                     *)

Shapes == {sh \in (1..MaxPixels) \X (1..MaxPixels) : sh[1] * sh[2] <= MaxPixels}

Index(rows, cols) == (1..rows) \X (1..cols)

\* What band 1 of a raster file decodes to: rows x cols digital numbers,
\* here every raster of at most MaxPixels pixels.
Rasters ==
    UNION {{[rows |-> sh[1], cols |-> sh[2], px |-> f] :
                f \in [Index(sh[1], sh[2]) -> Samples]} : sh \in Shapes}

\* Rasters whose pixels all hold one value, of up to MaxSide x MaxSide.
UniformRasters ==
    {[rows |-> sh[1], cols |-> sh[2], px |-> [ij \in Index(sh[1], sh[2]) |-> v]] :
        sh \in (1..MaxSide) \X (1..MaxSide), v \in Samples}

\* ds.GetRasterBand(1).ReadAsArray().astype(np.float32)
ReadAsArray_astype(dn) ==
    [rows |-> dn.rows, cols |-> dn.cols,
     px |-> [ij \in Index(dn.rows, dn.cols) |-> astype_float32(dn.px[ij])]]

Max(a, b) == IF a >= b THEN a ELSE b

\* numpy broadcasting of two 2-D operands: every axis equal, or 1 on a side.
Broadcastable(a, b) ==
    /\ (a.rows = b.rows \/ a.rows = 1 \/ b.rows = 1)
    /\ (a.cols = b.cols \/ a.cols = 1 \/ b.cols = 1)

\* The element of g that position ij of the broadcast result reads.
BroadcastAt(g, ij) ==
    g.px[<<IF g.rows = 1 THEN 1 ELSE ij[1], IF g.cols = 1 THEN 1 ELSE ij[2]>>]

\* A variant with the operands of the difference exchanged.
ndvi_pixel_exchanged(red, nir) == f32_div(f32_sub(red, nir), f32_add(nir, red))

\* One element of (nir_band - red_band) / (nir_band + red_band).
ndvi_pixel(red, nir) == f32_div(f32_sub(nir, red), f32_add(nir, red))

\* compute_ndvi on operands numpy can broadcast: a new array.
compute_ndvi(red_band_, nir_band_) ==
    LET rows == Max(red_band_.rows, nir_band_.rows)
        cols == Max(red_band_.cols, nir_band_.cols)
    IN  [rows |-> rows, cols |-> cols,
         px |-> [ij \in Index(rows, cols) |->
                    ndvi_pixel(BroadcastAt(red_band_, ij), BroadcastAt(nir_band_, ij))]]

\* np.seterr(divide="ignore", invalid="ignore") on the process-wide setting.
np_seterr(old) == [old EXCEPT !.divide = "ignore", !.invalid = "ignore"]

\* numpy's setting at interpreter start.
NumpyDefaultErr == [divide |-> "warn", over |-> "warn", under |-> "ignore", invalid |-> "warn"]

---------------------------------------------------------------------------
(* The product directory tree.                                             *)

RedPattern == "B04_10m.jp2"
NirPattern == "B08_10m.jp2"

\* Files a product tree of the model may hold: tile a with a red and a
\* near-infrared band, tile b/c with a red band.  A name is <<stem, rest>>.
Universe ==
    {[dir |-> <<"a">>, name |-> <<"X_", RedPattern>>],
     [dir |-> <<"b", "c">>, name |-> <<"X_", RedPattern>>],
     [dir |-> <<"a">>, name |-> <<"X_", NirPattern>>]}

Trees == SUBSET Universe

\* glob.glob(f"{directory}/**/*{pattern}", recursive=True): the files at any
\* depth whose name ends with the pattern.
GlobMatches(t, pattern) == {f \in t : f.name[Len(f.name)] = pattern}

\* glob returns the matches in directory-scan order, which it does not sort:
\* any arrangement of the matches.
GlobResults(t, pattern) ==
    LET S == GlobMatches(t, pattern)
        n == Cardinality(S)
    IN  {l \in [1..n -> S] : \A i, j \in 1..n : l[i] = l[j] => i = j}

\* The georeferencing stored in a band file: that of its tile.
GetGeoTransform(f) ==
    IF f.dir = <<"a">> THEN <<600000, 10, 0, 5300040, 0, -10>>
    ELSE <<699960, 10, 0, 5200020, 0, -10>>

GetProjection(f) == IF f.dir = <<"a">> THEN "EPSG:32632" ELSE "EPSG:32633"

\* The directory argument of the command and the path main writes to.
OutputArg == "out"
main_output_path(output_cog_path) == <<output_cog_path, "s2-2a-10m-ndvi.tif">>

---------------------------------------------------------------------------
(* One run of main.                                                        *)

VARIABLES
    pc,             \* where main stands
    tree,           \* the files under path_to_s2_folder
    red_band_path,  \* main's local: the glob list, then its first element
    nir_band_path,
    red_band,       \* main's locals holding the arrays
    nir_band,
    transform,      \* main's locals holding the spatial reference
    projection,
    discarded,      \* what main's "_" targets received from the second read
    ndvi,
    np_err,         \* numpy's process-wide error setting
    open_ds,        \* GDAL datasets opened and not yet released
    disk_out,       \* the output file as it is on disk
    stdout,         \* the lines printed
    failure,        \* the exception that ended the run
    calls           \* the functions main has called, in order

vars == <<pc, tree, red_band_path, nir_band_path, red_band, nir_band, transform,
          projection, discarded, ndvi, np_err, open_ds, disk_out, stdout,
          failure, calls>>

\* A variant of main that goes from the second read straight to the write.
main_next_without_compute(p) ==
    CASE p = "Start" -> "RedLocated"
      [] p = "RedLocated" -> "Located"
      [] p = "Located" -> "BandsLocated"
      [] p = "BandsLocated" -> "RedRead"
      [] p = "RedRead" -> "IndexComputed"
      [] p = "BandsRead" -> "IndexComputed"
      [] p = "IndexComputed" -> "Written"
      [] p = "Written" -> "Done"

\* The statement main reaches when the one at p completes normally.
main_next(p) ==
    CASE p = "Start" -> "RedLocated"
      [] p = "RedLocated" -> "Located"
      [] p = "Located" -> "BandsLocated"
      [] p = "BandsLocated" -> "RedRead"
      [] p = "RedRead" -> "BandsRead"
      [] p = "BandsRead" -> "IndexComputed"
      [] p = "IndexComputed" -> "Written"
      [] p = "Written" -> "Done"

\* An exception nothing catches: the run ends there.
Raise(fn, exc) ==
    /\ pc' = "Failed"
    /\ failure' = [fn |-> fn, exc |-> exc]

Return ==
    /\ pc' = main_next(pc)
    /\ UNCHANGED failure

Init ==
    /\ pc = "Start"
    /\ tree \in Trees
    /\ red_band_path = None
    /\ nir_band_path = None
    /\ red_band = None
    /\ nir_band = None
    /\ transform = None
    /\ projection = None
    /\ discarded = None
    /\ ndvi = None
    /\ np_err = NumpyDefaultErr
    /\ open_ds = {}
    /\ disk_out = None
    /\ stdout = <<>>
    /\ failure = None
    /\ calls = <<>>

\* find_band: the glob list when it is not empty, FileNotFoundError otherwise.
find_band_raises(t, pattern) == GlobMatches(t, pattern) = {}

\* red_band_path = find_band(path_to_s2_folder, "B04_10m.jp2")
FindRed ==
    /\ pc = "Start"
    /\ calls' = Append(calls, <<"find_band", RedPattern>>)
    /\ IF find_band_raises(tree, RedPattern)
       THEN Raise("find_band", "FileNotFoundError") /\ UNCHANGED red_band_path
       ELSE \E file_path \in GlobResults(tree, RedPattern) :
                red_band_path' = file_path /\ Return
    /\ UNCHANGED <<tree, nir_band_path, red_band, nir_band, transform, projection,
                   discarded, ndvi, np_err, open_ds, disk_out, stdout>>

\* nir_band_path = find_band(path_to_s2_folder, "B08_10m.jp2")
FindNir ==
    /\ pc = "RedLocated"
    /\ calls' = Append(calls, <<"find_band", NirPattern>>)
    /\ IF find_band_raises(tree, NirPattern)
       THEN Raise("find_band", "FileNotFoundError") /\ UNCHANGED nir_band_path
       ELSE \E file_path \in GlobResults(tree, NirPattern) :
                nir_band_path' = file_path /\ Return
    /\ UNCHANGED <<tree, red_band_path, red_band, nir_band, transform, projection,
                   discarded, ndvi, np_err, open_ds, disk_out, stdout>>

\* red_band_path = red_band_path[0]; nir_band_path = nir_band_path[0]
SelectFirst ==
    /\ pc = "Located"
    /\ red_band_path' = red_band_path[1]
    /\ nir_band_path' = nir_band_path[1]
    /\ Return
    /\ UNCHANGED <<tree, red_band, nir_band, transform, projection, discarded,
                   ndvi, np_err, open_ds, disk_out, stdout, calls>>

\* What the codec does with a band file: decode it, refuse to open it, open
\* it and find no band, or open it and fail to decode band 1.
ReadOutcomes == {"ok", "cannot_open", "zero_bands", "decode_error"}

\* The exception read_band ends with.  The source never enables or disables
\* GDAL's exceptions, so a failing GDAL call raises RuntimeError (use_exc)
\* or returns None, on which the next attribute access raises
\* AttributeError.
read_band_exception(outcome, use_exc) ==
    IF outcome = "ok" THEN NoException
    ELSE IF use_exc THEN "RuntimeError" ELSE "AttributeError"

\* The datasets open when read_band is left: "ds = None" is its last
\* statement but one, and is reached only when nothing raised before it.
read_band_open_after(open, band_path, outcome) ==
    IF outcome \in {"zero_bands", "decode_error"} THEN open \cup {band_path}
    ELSE open

\* The tuple read_band returns.
read_band_result(band_path, dn) ==
    [band_array |-> ReadAsArray_astype(dn),
     transform |-> GetGeoTransform(band_path),
     projection |-> GetProjection(band_path)]

\* red_band, transform, projection = read_band(red_band_path)
ReadRed(files) ==
    /\ pc = "BandsLocated"
    /\ calls' = Append(calls, <<"read_band", red_band_path>>)
    /\ \E outcome \in ReadOutcomes, use_exc \in BOOLEAN :
        /\ open_ds' = read_band_open_after(open_ds, red_band_path, outcome)
        /\ IF read_band_exception(outcome, use_exc) # NoException
           THEN /\ Raise("read_band", read_band_exception(outcome, use_exc))
                /\ UNCHANGED <<red_band, transform, projection>>
           ELSE \E dn \in files :
                LET r == read_band_result(red_band_path, dn)
                IN  /\ red_band' = r.band_array
                    /\ transform' = r.transform
                    /\ projection' = r.projection
                    /\ Return
    /\ UNCHANGED <<tree, red_band_path, nir_band_path, nir_band, discarded, ndvi,
                   np_err, disk_out, stdout>>

\* A variant that unpacks the second read into transform and projection.
unpack_nir_overwriting(held, r) ==
    [transform |-> r.transform, projection |-> r.projection]

\* The spatial reference main holds after "nir_band, _, _ = read_band(...)":
\* the one it held before.
unpack_nir(held, r) == held

\* nir_band, _, _ = read_band(nir_band_path)
ReadNir(files) ==
    /\ pc = "RedRead"
    /\ calls' = Append(calls, <<"read_band", nir_band_path>>)
    /\ \E outcome \in ReadOutcomes, use_exc \in BOOLEAN :
        /\ open_ds' = read_band_open_after(open_ds, nir_band_path, outcome)
        /\ IF read_band_exception(outcome, use_exc) # NoException
           THEN /\ Raise("read_band", read_band_exception(outcome, use_exc))
                /\ UNCHANGED <<nir_band, transform, projection, discarded>>
           ELSE \E dn \in files :
                LET r == read_band_result(nir_band_path, dn)
                    held == unpack_nir([transform |-> transform,
                                        projection |-> projection], r)
                IN  /\ nir_band' = r.band_array
                    /\ discarded' = [transform |-> r.transform,
                                     projection |-> r.projection]
                    /\ transform' = held.transform
                    /\ projection' = held.projection
                    /\ Return
    /\ UNCHANGED <<tree, red_band_path, nir_band_path, red_band, ndvi, np_err,
                   disk_out, stdout>>

\* The exception compute_ndvi ends with: numpy's ValueError when the two
\* shapes do not broadcast, none otherwise.
compute_ndvi_exception(red_band_, nir_band_) ==
    IF Broadcastable(red_band_, nir_band_) THEN NoException ELSE "ValueError"

\* ndvi = compute_ndvi(red_band, nir_band)
ComputeNdvi ==
    /\ pc = "BandsRead"
    /\ calls' = Append(calls, <<"compute_ndvi">>)
    /\ np_err' = np_seterr(np_err)
    /\ IF compute_ndvi_exception(red_band, nir_band) # NoException
       THEN /\ Raise("compute_ndvi", compute_ndvi_exception(red_band, nir_band))
            /\ UNCHANGED ndvi
       ELSE /\ ndvi' = compute_ndvi(red_band, nir_band)
            /\ Return
    /\ UNCHANGED <<tree, red_band_path, nir_band_path, red_band, nir_band,
                   transform, projection, discarded, open_ds, disk_out, stdout>>

\* What GDAL does for write_cog: all of it, no GTiff driver, no dataset
\* created at the output path, or the pixels not (all) written.
WriteOutcomes == {"ok", "no_driver", "create_fails", "io_error"}

BlockSize == 512
NoDataValue == -9999

\* options = ["TILED=YES", "COMPRESS=LZW", "BLOCKXSIZE=512", "BLOCKYSIZE=512"]
options ==
    [TILED |-> "YES", COMPRESS |-> "LZW", BLOCKXSIZE |-> BlockSize, BLOCKYSIZE |-> BlockSize]

\* A variant that returns quietly when Create gives no dataset.
write_cog_exception_create_unchecked(outcome, use_exc) ==
    CASE outcome = "ok" -> NoException
      [] outcome = "no_driver" -> "RuntimeError"
      [] outcome = "create_fails" -> NoException
      [] outcome = "io_error" -> IF use_exc THEN "RuntimeError" ELSE NoException

\* The exception write_cog ends with.  Only the missing driver is tested
\* for; a failed Create raises by itself (use_exc) or returns None, on which
\* SetGeoTransform raises AttributeError; a failed WriteArray raises only
\* under use_exc, its error return being dropped.
write_cog_exception(outcome, use_exc) ==
    CASE outcome = "ok" -> NoException
      [] outcome = "no_driver" -> "RuntimeError"
      [] outcome = "create_fails" -> IF use_exc THEN "RuntimeError" ELSE "AttributeError"
      [] outcome = "io_error" -> IF use_exc THEN "RuntimeError" ELSE NoException

\* The datasets open when write_cog is left: "output_ds = None" is reached
\* only when nothing raised after Create.
write_cog_open_after(open, output_cog_path, outcome, use_exc) ==
    IF outcome = "io_error" /\ use_exc THEN open \cup {output_cog_path} ELSE open

\* The samples WriteArray stores in the Float32 band: the array's, as they are.
WriteArray(array) == array.px

\* The output file when write_cog is left: px holds the samples stored,
\* written tells whether WriteArray stored them all, nodata is empty or
\* holds the declared no-data value.
write_cog_file(old, ndvi_, transform_, projection_, output_cog_path, outcome, use_exc) ==
    IF outcome \in {"no_driver", "create_fails"} THEN old
    ELSE LET raised == write_cog_exception(outcome, use_exc) # NoException
         IN  [path |-> output_cog_path,
              cols |-> ndvi_.cols, rows |-> ndvi_.rows, bands |-> 1,
              type |-> "GDT_Float32", options |-> options,
              transform |-> transform_, projection |-> projection_,
              px |-> IF outcome = "ok" THEN WriteArray(ndvi_) ELSE <<>>,
              written |-> outcome = "ok",
              description |-> IF raised THEN "" ELSE "NDVI",
              nodata |-> IF raised THEN <<>> ELSE <<NoDataValue>>,
              closed |-> ~raised]

\* write_cog(ndvi, transform, projection, output_cog_path)
WriteCog ==
    /\ pc = "IndexComputed"
    /\ calls' = Append(calls, <<"write_cog", main_output_path(OutputArg)>>)
    /\ \E outcome \in WriteOutcomes, use_exc \in BOOLEAN :
        LET path == main_output_path(OutputArg)
            exc == write_cog_exception(outcome, use_exc)
        IN  /\ disk_out' = write_cog_file(disk_out, ndvi, transform, projection,
                                          path, outcome, use_exc)
            /\ open_ds' = write_cog_open_after(open_ds, path, outcome, use_exc)
            /\ IF exc # NoException
               THEN Raise("write_cog", exc) /\ UNCHANGED stdout
               ELSE /\ stdout' = Append(stdout, <<"NDVI calculation complete. COG saved to", path>>)
                    /\ Return
    /\ UNCHANGED <<tree, red_band_path, nir_band_path, red_band, nir_band,
                   transform, projection, discarded, ndvi, np_err>>

\* main returns: the process exits with status 0.
MainReturn ==
    /\ pc = "Written"
    /\ Return
    /\ UNCHANGED <<tree, red_band_path, nir_band_path, red_band, nir_band,
                   transform, projection, discarded, ndvi, np_err, open_ds,
                   disk_out, stdout, calls>>

Next ==
    \/ FindRed
    \/ FindNir
    \/ SelectFirst
    \/ ReadRed(Rasters)
    \/ ReadNir(Rasters)
    \/ ComputeNdvi
    \/ WriteCog
    \/ MainReturn

Spec == Init /\ [][Next]_vars

\* The same run over band files of one sample value and of more shapes.
NextShapes ==
    \/ FindRed
    \/ FindNir
    \/ SelectFirst
    \/ ReadRed(UniformRasters)
    \/ ReadNir(UniformRasters)
    \/ ComputeNdvi
    \/ WriteCog
    \/ MainReturn

SpecShapes == Init /\ [][NextShapes]_vars

---------------------------------------------------------------------------
(* Properties.                                                             *)

CallNames == [i \in 1..Len(calls) |-> calls[i][1]]

Called(fn) == \E i \in 1..Len(calls) : calls[i][1] = fn

IsPrefix(a, b) == Len(a) <= Len(b) /\ \A i \in 1..Len(a) : a[i] = b[i]

SameShape(a, b) == a.rows = b.rows /\ a.cols = b.cols

\* The pixels of the two bands at ij add up to zero.
ZeroSum(ij) ==
    IntOf(BroadcastAt(red_band, ij)) + IntOf(BroadcastAt(nir_band, ij)) = 0

NonFinite(v) == v.k # "fin"

\* write_cog has been called and left, by return or by exception.
WriteCogLeft ==
    Called("write_cog") /\ (pc \in {"Written", "Done"} \/ pc = "Failed")

\* C1: every pixel whose red and near-infrared samples add up to zero is
\* persisted as the no-data value -9999, and no persisted sample is NaN or
\* infinite.
C1_ZeroSumPersistedAsNoData ==
    (disk_out # None /\ disk_out.written) =>
        \A ij \in DOMAIN disk_out.px :
            /\ ZeroSum(ij) => disk_out.px[ij] = astype_float32(NoDataValue)
            /\ ~NonFinite(disk_out.px[ij])

\* C2: when the two bands read differ in rows x cols, compute_ndvi fails and
\* returns nothing, and the run is Failed without the writer being called.
C2_ShapeMismatchFails ==
    (Called("compute_ndvi") /\ ~SameShape(red_band, nir_band)) =>
        /\ pc = "Failed"
        /\ failure.fn = "compute_ndvi"
        /\ ndvi = None
        /\ ~Called("write_cog")

\* The stage of the pipeline's state machine that main stands in.
StageOf(p) ==
    CASE p \in {"Start", "RedLocated"} -> "Start"
      [] p \in {"Located", "BandsLocated", "RedRead"} -> "BandsLocated"
      [] OTHER -> p

StageSucc ==
    {<<"Start", "BandsLocated">>, <<"BandsLocated", "BandsRead">>,
     <<"BandsRead", "IndexComputed">>, <<"IndexComputed", "Written">>,
     <<"Written", "Done">>}

MainCallOrder ==
    <<"find_band", "find_band", "read_band", "read_band", "compute_ndvi", "write_cog">>

\* The number of calls main has made when it stands at p.
CallsMadeAt(p) ==
    CASE p = "Start" -> 0
      [] p = "RedLocated" -> 1
      [] p \in {"Located", "BandsLocated"} -> 2
      [] p = "RedRead" -> 3
      [] p = "BandsRead" -> 4
      [] p = "IndexComputed" -> 5
      [] p \in {"Written", "Done"} -> 6

C3_CallsInOrder ==
    /\ IsPrefix(CallNames, MainCallOrder)
    /\ pc # "Failed" => Len(calls) = CallsMadeAt(pc)
    /\ (failure # None) <=> (pc = "Failed")

C3_StageStep ==
    /\ pc \notin {"Failed", "Done"}
    /\ \/ StageOf(pc') = StageOf(pc)
       \/ <<StageOf(pc), StageOf(pc')>> \in StageSucc
       \/ pc' = "Failed"

\* C3: a run goes through Start, BandsLocated, BandsRead, IndexComputed,
\* Written, Done in that order, or from one of them to Failed; nothing
\* follows Done or Failed; the calls are the two find_band, the two
\* read_band, compute_ndvi and write_cog in that order, each at most once,
\* and none is made after a failure.
C3_StageOrder == []C3_CallsInOrder /\ [][C3_StageStep]_vars

\* C3 witness: a run that failed in compute_ndvi, after both reads and
\* before any write.
C3_FailedMidRun ==
    /\ pc = "Failed"
    /\ failure.fn = "compute_ndvi"
    /\ CallNames = SubSeq(MainCallOrder, 1, 5)
    /\ disk_out = None

\* v is the binary32 value nearest to n / d (d # 0).
Rounded(v, n, d) ==
    LET an == Abs(n)
        ad == Abs(d)
        neg == (n < 0) # (d < 0)
    IN  /\ v.k = "fin"
        /\ n = 0 => v.m = 0
        /\ n # 0 =>
            /\ v.s = (IF neg THEN 1 ELSE 0)
            /\ Pow2(MantBits - 1) <= v.m /\ v.m < Pow2(MantBits)
            /\ IF v.e < 0
               THEN 2 * Abs(v.m * ad - an * Pow2(-v.e)) <= ad
               ELSE 2 * Abs(v.m * Pow2(v.e) * ad - an) <= Pow2(v.e) * ad

\* -1 <= v <= 1
InUnitRange(v) ==
    /\ v.k = "fin"
    /\ \/ v.m = 0
       \/ v.e <= -MantBits
       \/ v.e < 0 /\ v.m <= Pow2(-v.e)

NoZeroSumPixel == \A ij \in DOMAIN red_band.px : ~ZeroSum(ij)

NonNegativeBands ==
    \A ij \in DOMAIN red_band.px :
        IntOf(red_band.px[ij]) >= 0 /\ IntOf(nir_band.px[ij]) >= 0

C4_Values ==
    (ndvi # None /\ SameShape(red_band, nir_band) /\ NoZeroSumPixel) =>
        /\ SameShape(ndvi, red_band)
        /\ \A ij \in DOMAIN ndvi.px :
            Rounded(ndvi.px[ij],
                    IntOf(nir_band.px[ij]) - IntOf(red_band.px[ij]),
                    IntOf(nir_band.px[ij]) + IntOf(red_band.px[ij]))
        /\ NonNegativeBands => \A ij \in DOMAIN ndvi.px : InUnitRange(ndvi.px[ij])

C4_InputsKept ==
    pc = "BandsRead" => red_band' = red_band /\ nir_band' = nir_band

\* C4: for bands of equal dimensions with no zero-sum pixel, compute_ndvi
\* returns an array of those dimensions whose every element is the float32
\* quotient (nir - red) / (nir + red), that is the binary32 value nearest
\* to the exact quotient; it lies in [-1, 1] when both bands are
\* non-negative; and the call leaves both input arrays as they were.
C4_NdviElementwise == []C4_Values /\ [][C4_InputsKept]_vars

\* C4 witness: an index computed from equal-shape non-negative bands with
\* no zero-sum pixel, one pixel being red 1, nir 2 (quotient 1/3, which
\* binary32 does not hold exactly).
C4_ComputedInexact ==
    /\ ndvi # None
    /\ SameShape(red_band, nir_band)
    /\ NoZeroSumPixel
    /\ NonNegativeBands
    /\ \E ij \in DOMAIN ndvi.px :
        IntOf(red_band.px[ij]) = 1 /\ IntOf(nir_band.px[ij]) = 2

\* The place of a file's path in the sorted order of the paths.
PathRank(f) == IF f.dir = <<"a">> THEN 1 ELSE 2

Sorted(l) == \A i, j \in DOMAIN l : i < j => PathRank(l[i]) < PathRank(l[j])

Listed(l, S) == {l[i] : i \in DOMAIN l} = S /\ Cardinality(DOMAIN l) = Cardinality(S)

FirstSorted(S) == CHOOSE f \in S : \A g \in S : PathRank(f) <= PathRank(g)

\* C5: with no file matching, find_band fails with the not-found error;
\* otherwise it returns every matching file, in sorted order, so that the
\* path main goes on with is the first in sorted order.
C5_FindBandSorted ==
    /\ (Called("find_band") /\ GlobMatches(tree, RedPattern) = {}) =>
            (pc = "Failed" /\ failure = [fn |-> "find_band", exc |-> "FileNotFoundError"])
    /\ pc \in {"RedLocated", "Located"} =>
            (Listed(red_band_path, GlobMatches(tree, RedPattern)) /\ Sorted(red_band_path))
    /\ pc = "Located" =>
            (Listed(nir_band_path, GlobMatches(tree, NirPattern)) /\ Sorted(nir_band_path))
    /\ pc = "BandsLocated" =>
            /\ red_band_path = FirstSorted(GlobMatches(tree, RedPattern))
            /\ nir_band_path = FirstSorted(GlobMatches(tree, NirPattern))

\* C6: the geotransform and projection main hands to the writer, and the
\* ones of the output file, are those stored in the red band file; those
\* of the near-infrared band file are read and go nowhere.
C6_RedSpatialReference ==
    /\ pc \in {"BandsRead", "IndexComputed", "Written", "Done"} =>
        /\ transform = GetGeoTransform(red_band_path)
        /\ projection = GetProjection(red_band_path)
        /\ discarded = [transform |-> GetGeoTransform(nir_band_path),
                        projection |-> GetProjection(nir_band_path)]
    /\ pc \in {"Written", "Done"} => disk_out # None
    /\ disk_out # None =>
        /\ disk_out.transform = GetGeoTransform(red_band_path)
        /\ disk_out.projection = GetProjection(red_band_path)

\* C6 witness: a written output whose near-infrared band was georeferenced
\* differently from the red band.
C6_WrittenBandsDiffer ==
    /\ pc = "Written"
    /\ disk_out # None
    /\ discarded.transform # disk_out.transform
    /\ discarded.projection # disk_out.projection

\* C7: once write_cog is left, by return or by exception, the output
\* dataset is not open, and an output file, if one is left, is closed and
\* holds all its pixels.
C7_OutputReleased ==
    WriteCogLeft =>
        /\ main_output_path(OutputArg) \notin open_ds
        /\ disk_out # None => (disk_out.closed /\ disk_out.written)

\* C8: a read_band that got no band fails, the run being Failed in
\* read_band; and no input dataset is open once read_band is left.
C8_InputReleased ==
    /\ (Len(calls) >= 3 /\ red_band = None) => (pc = "Failed" /\ failure.fn = "read_band")
    /\ (Len(calls) >= 4 /\ nir_band = None) => (pc = "Failed" /\ failure.fn = "read_band")
    /\ open_ds \cap Universe = {}

\* C9: a write_cog that found no driver, or got no dataset created at the
\* output path, fails: the run is Failed in write_cog and no success line
\* was printed.
C9_WriteErrorFails ==
    (Called("write_cog") /\ disk_out = None) =>
        /\ pc = "Failed"
        /\ failure.fn = "write_cog"
        /\ failure.exc \in {"RuntimeError", "AttributeError"}
        /\ stdout = <<>>

\* C9 witness: the run failed on Create returning no dataset.
C9_CreateFailed ==
    /\ pc = "Failed"
    /\ failure = [fn |-> "write_cog", exc |-> "AttributeError"]
    /\ disk_out = None
    /\ stdout = <<>>

\* C10: numpy's process-wide error setting is what it was when the process
\* started.
C10_ErrSettingUnchanged == np_err = NumpyDefaultErr

====
